---- MODULE Spec2Model ----
(***************************************************************************)
(* Kabbalah Code backend (src/main.py): the reward ledger behind the       *)
(* onboarding, daily prediction, fortune spin and task endpoints, in its   *)
(* two storage modes.                                                      *)
(*                                                                         *)
(* In-memory mode: the dictionaries users_memory and predictions_memory    *)
(* live in one server process; every handler is an `async def` without an  *)
(* await, so a handler runs from its first line to its return as one step. *)
(*                                                                         *)
(* Supabase mode: the tables users, predictions, spins and user_tasks live *)
(* in a database shared by every worker that serves the API.  A handler is *)
(* a sequence of store calls (.execute()), each one atomic in the          *)
(* database; between two store calls of one handler the store calls of a   *)
(* handler running in another worker may take place.                       *)
(***************************************************************************)
EXTENDS Integers, Sequences, FiniteSets, TLC

\* ------------------------------------------------------------------ bounds
MaxUser == 2          \* telegram ids are 1..MaxUser
MaxDate == 2          \* calendar dates are 1..MaxDate
MaxCalls == 3         \* Spec: requests served in one behaviour
MaxPredictionCalls == 2   \* SpecPrediction: requests served in one behaviour
MaxCode == 2          \* distinct verification codes that can be generated
MaxLevel == 3         \* SpecLevel: levels an account starts the award at
MaxDelta == 72        \* SpecLevel: awarded amounts are 0..MaxDelta times the smallest prize

Ids == 1..MaxUser
Dates == 1..MaxDate
Codes == 1..MaxCode
Procs == {1, 2}       \* workers serving requests against the shared database

\* Python's None (referrer: Optional[int] = None); no telegram id is 0.
None == 0
Referrers == Ids \cup {None}

\* --------------------------------------------------------- program constants
PREDICTION_POINTS == 100
prizes == <<50, 100, 150, 200, 500, 1000>>
Prizes == {prizes[i] : i \in DOMAIN prizes}

\* The rows of the tasks table: the two tasks of get_tasks.
tasks == (1 :> 100) @@ (2 :> 150)
TaskIds == 1..3

VARIABLES
    USE_SUPABASE,        \* the storage mode, fixed at import
    today,               \* date.today()
    users_memory,        \* dict telegram_id -> user dict
    predictions_memory,  \* dict cache_key -> prediction dict
    db_users,            \* table users, keyed by telegram_id
    db_predictions,      \* table predictions, row i has id i
    db_spins,            \* table spins
    db_user_tasks,       \* table user_tasks
    pc,                  \* Supabase mode: the store call each worker makes next
    loc,                 \* Supabase mode: the local variables of each handler
    resp,                \* the response returned last
    quota,               \* requests still to be served in this behaviour
    granted,             \* history: successful responses per <<op, user, date>>
    awarded              \* history: points_earned of the successful responses, per user

store == <<users_memory, predictions_memory, db_users, db_predictions,
           db_spins, db_user_tasks>>
vars == <<USE_SUPABASE, today, users_memory, predictions_memory, db_users,
          db_predictions, db_spins, db_user_tasks, pc, loc, resp, quota,
          granted, awarded>>

\* ------------------------------------------------------------ leveling policy
calculate_xp_for_level(level) == 1000 * level + 500 * (level - 1)

\* The loop with the exit test `>` in place of `>=`.
RECURSIVE LevelUp_strict(_, _)
LevelUp_strict(new_level, new_xp) ==
    IF new_xp > calculate_xp_for_level(new_level)
    THEN LevelUp_strict(new_level + 1, new_xp - calculate_xp_for_level(new_level))
    ELSE [level |-> new_level, xp |-> new_xp]

\* The level-up loop: while new_xp >= xp_needed: level += 1; xp -= xp_needed.
RECURSIVE LevelUp(_, _)
LevelUp(new_level, new_xp) ==
    IF new_xp >= calculate_xp_for_level(new_level)
    THEN LevelUp(new_level + 1, new_xp - calculate_xp_for_level(new_level))
    ELSE [level |-> new_level, xp |-> new_xp]

\* ------------------------------------------------------------------- helpers
\* dict.get(key, default)
Get(d, key, default) == IF key \in DOMAIN d THEN d[key] ELSE default

\* d[key] = value
Put(d, key, value) == [k \in DOMAIN d \cup {key} |-> IF k = key THEN value ELSE d[k]]

NoLoc == [telegram_id |-> 0, today |-> 0, code |-> 0, points |-> 0, pid |-> 0,
          task_id |-> 0, referrer |-> 0, new_points |-> 0, new_xp |-> 0,
          new_level |-> 0]

Response(n, op, id, d, status, points) ==
    [n |-> n, op |-> op, telegram_id |-> id, today |-> d, status |-> status,
     points |-> points]

\* A handler returns: the response is recorded, and a successful award is
\* counted in the history variables.
Return(op, id, d, status, points) ==
    /\ resp' = Response(resp.n + 1, op, id, d, status, points)
    /\ granted' = IF status = "ok" /\ op \in {"verify", "spin"}
                  THEN [granted EXCEPT ![<<op, id, d>>] = @ + 1]
                  ELSE granted
    /\ awarded' = IF status = "ok" /\ op \in {"verify", "spin", "task"}
                  THEN [awarded EXCEPT ![id] = @ + points]
                  ELSE awarded

Init ==
    /\ USE_SUPABASE \in BOOLEAN
    /\ today = 1
    /\ users_memory = <<>>
    /\ predictions_memory = <<>>
    /\ db_users = <<>>
    /\ db_predictions = <<>>
    /\ db_spins = <<>>
    /\ db_user_tasks = <<>>
    /\ pc = [p \in Procs |-> "idle"]
    /\ loc = [p \in Procs |-> NoLoc]
    /\ resp = Response(0, "none", 0, 0, "none", 0)
    /\ quota = MaxCalls
    /\ granted = [k \in {"verify", "spin"} \X Ids \X Dates |-> 0]
    /\ awarded = [id \in Ids |-> 0]

\* The calendar date advances (midnight passes).
NextDay ==
    /\ today < MaxDate
    /\ today' = today + 1
    /\ UNCHANGED <<USE_SUPABASE, store, pc, loc, resp, quota, granted, awarded>>

\* ----------------------------------------------------------- in-memory mode
MemCall ==
    /\ ~USE_SUPABASE
    /\ quota > 0
    /\ quota' = quota - 1
    /\ UNCHANGED <<USE_SUPABASE, today, db_users, db_predictions, db_spins,
                   db_user_tasks, pc, loc>>

\* The user dict onboard_user builds.
NewUser(id, referrer) ==
    [telegram_id |-> id, username |-> id, level |-> 1, xp |-> 0, points |-> 0,
     referrer_id |-> referrer]

\* onboard_user without the look-up of the existing account.
onboard_user_mem_overwrite(id, referrer) ==
    /\ MemCall
    /\ users_memory' = Put(users_memory, id, NewUser(id, referrer))
    /\ UNCHANGED predictions_memory
    /\ Return("onboard", id, today, "ok", 0)

onboard_user_mem(id, referrer) ==
    /\ MemCall
    /\ users_memory' = IF id \in DOMAIN users_memory
                       THEN users_memory
                       ELSE Put(users_memory, id, NewUser(id, referrer))
    /\ UNCHANGED predictions_memory
    /\ Return("onboard", id, today, "ok", 0)

get_daily_prediction_mem(id) ==
    /\ MemCall
    /\ LET cache_key == <<id, today>> IN
       \/ /\ cache_key \in DOMAIN predictions_memory
          /\ UNCHANGED predictions_memory
       \/ /\ cache_key \notin DOMAIN predictions_memory
          /\ \E code \in Codes :
                predictions_memory' = Put(predictions_memory, cache_key, [code |-> code])
    /\ UNCHANGED users_memory
    /\ Return("prediction", id, today, "ok", 0)

\* The award of the in-memory branch, passing a tenth on to the referrer.
AwardMem_cascade(id, points) ==
    LET user == Get(users_memory, id, <<>>)
        referrer == Get(user, "referrer_id", None)
        paid == Put(users_memory, id, Put(user, "points", Get(user, "points", 0) + points))
    IN IF referrer = None \/ referrer = id THEN paid
       ELSE Put(paid, referrer,
                Put(Get(paid, referrer, <<>>), "points",
                    Get(Get(paid, referrer, <<>>), "points", 0) + (points * 10) \div 100))

\* user = users_memory.get(id, {}); user["points"] = user.get("points", 0) + points;
\* users_memory[id] = user
AwardMem(id, points) ==
    LET user == Get(users_memory, id, <<>>) IN
    Put(users_memory, id, Put(user, "points", Get(user, "points", 0) + points))

\* verify_prediction without the comparison of the submitted code.
verify_prediction_mem_unchecked(id, code) ==
    /\ MemCall
    /\ LET cache_key == <<id, today>> IN
       IF cache_key \notin DOMAIN predictions_memory
       THEN /\ UNCHANGED <<users_memory, predictions_memory>>
            /\ Return("verify", id, today, "No prediction for today", 0)
       ELSE /\ users_memory' = AwardMem(id, PREDICTION_POINTS)
            /\ UNCHANGED predictions_memory
            /\ Return("verify", id, today, "ok", PREDICTION_POINTS)

verify_prediction_mem(id, code) ==
    /\ MemCall
    /\ LET cache_key == <<id, today>> IN
       IF cache_key \notin DOMAIN predictions_memory
       THEN /\ UNCHANGED <<users_memory, predictions_memory>>
            /\ Return("verify", id, today, "No prediction for today", 0)
       ELSE IF code # predictions_memory[cache_key].code
       THEN /\ UNCHANGED <<users_memory, predictions_memory>>
            /\ Return("verify", id, today, "Invalid verification code", 0)
       ELSE /\ users_memory' = AwardMem(id, PREDICTION_POINTS)
            /\ UNCHANGED predictions_memory
            /\ Return("verify", id, today, "ok", PREDICTION_POINTS)

spin_fortune_mem(id) ==
    /\ MemCall
    /\ \E points \in Prizes :
          /\ users_memory' = AwardMem(id, points)
          /\ Return("spin", id, today, "ok", points)
    /\ UNCHANGED predictions_memory

\* The in-memory branch of complete_task returns a fixed response.
complete_task_mem(task_id, id) ==
    /\ MemCall
    /\ UNCHANGED <<users_memory, predictions_memory>>
    /\ Return("task", id, today, "ok", 100)

NextMem ==
    \/ \E id \in Ids, referrer \in Referrers : onboard_user_mem(id, referrer)
    \/ \E id \in Ids : get_daily_prediction_mem(id)
    \/ \E id \in Ids, code \in Codes : verify_prediction_mem(id, code)
    \/ \E id \in Ids : spin_fortune_mem(id)
    \/ \E id \in Ids, task_id \in TaskIds : complete_task_mem(task_id, id)

\* ------------------------------------------------------------ Supabase mode
\* A request arrives at an idle worker; its first store call is part of the step.
Begin(p) ==
    /\ USE_SUPABASE
    /\ pc[p] = "idle"
    /\ quota > 0
    /\ quota' = quota - 1
    /\ UNCHANGED <<USE_SUPABASE, today, users_memory, predictions_memory>>

\* A later store call of the handler a worker is running.
At(p, label) ==
    /\ USE_SUPABASE
    /\ pc[p] = label
    /\ UNCHANGED <<USE_SUPABASE, today, users_memory, predictions_memory, quota>>

Goto(p, label, l) ==
    /\ pc' = [pc EXCEPT ![p] = label]
    /\ loc' = [loc EXCEPT ![p] = l]
    /\ UNCHANGED <<resp, granted, awarded>>

\* The handler returns or raises: the worker is idle again.
Finish(p, op, id, d, status, points) ==
    /\ pc' = [pc EXCEPT ![p] = "idle"]
    /\ loc' = [loc EXCEPT ![p] = NoLoc]
    /\ Return(op, id, d, status, points)

\* A new row of the users table: insert(user_data) names the identity and the
\* referrer; level, xp and points take the column defaults.
NewRow(id, referrer) ==
    [telegram_id |-> id, username |-> id, level |-> 1, xp |-> 0, points |-> 0,
     referrer_id |-> referrer]

\* existing = select * from users where telegram_id = id
onboard_select(p, id, referrer) ==
    /\ Begin(p)
    /\ UNCHANGED <<db_users, db_predictions, db_spins, db_user_tasks>>
    /\ IF id \in DOMAIN db_users
       THEN Finish(p, "onboard", id, today, "ok", 0)
       ELSE Goto(p, "onboard_insert", [NoLoc EXCEPT !.telegram_id = id,
                                                    !.today = today,
                                                    !.referrer = referrer])

\* insert into users; telegram_id is the key of the table.
onboard_insert(p) ==
    /\ At(p, "onboard_insert")
    /\ UNCHANGED <<db_predictions, db_spins, db_user_tasks>>
    /\ LET id == loc[p].telegram_id IN
       IF id \in DOMAIN db_users
       THEN /\ UNCHANGED db_users
            /\ Finish(p, "onboard", id, loc[p].today, "APIError", 0)
       ELSE /\ db_users' = Put(db_users, id, NewRow(id, loc[p].referrer))
            /\ Finish(p, "onboard", id, loc[p].today, "ok", 0)

\* select * from predictions where user_id = id and created_at = d
PredictionsOf(id, d) ==
    {i \in DOMAIN db_predictions :
        db_predictions[i].user_id = id /\ db_predictions[i].created_at = d}

prediction_select(p, id) ==
    /\ Begin(p)
    /\ UNCHANGED <<db_users, db_predictions, db_spins, db_user_tasks>>
    /\ IF PredictionsOf(id, today) # {}
       THEN Finish(p, "prediction", id, today, "ok", 0)
       ELSE \E code \in Codes :
               Goto(p, "prediction_insert", [NoLoc EXCEPT !.telegram_id = id,
                                                          !.today = today,
                                                          !.code = code])

\* insert into predictions; created_at and is_verified take the column defaults.
prediction_insert(p) ==
    /\ At(p, "prediction_insert")
    /\ db_predictions' = Append(db_predictions,
            [user_id |-> loc[p].telegram_id, created_at |-> today,
             verification_code |-> loc[p].code, is_verified |-> FALSE])
    /\ UNCHANGED <<db_users, db_spins, db_user_tasks>>
    /\ Goto(p, "prediction_update", loc[p])

\* update users set last_prediction = now() where telegram_id = id
prediction_update(p) ==
    /\ At(p, "prediction_update")
    /\ UNCHANGED <<db_users, db_predictions, db_spins, db_user_tasks>>
    /\ Finish(p, "prediction", loc[p].telegram_id, loc[p].today, "ok", 0)

\* result = select ...; prediction = result.data[0]; the three checks.
verify_select(p, id, code) ==
    /\ Begin(p)
    /\ UNCHANGED <<db_users, db_predictions, db_spins, db_user_tasks>>
    /\ IF PredictionsOf(id, today) = {}
       THEN Finish(p, "verify", id, today, "No prediction for today", 0)
       ELSE \E pid \in PredictionsOf(id, today) :
               IF db_predictions[pid].is_verified
               THEN Finish(p, "verify", id, today, "Already verified today", 0)
               ELSE IF code # db_predictions[pid].verification_code
               THEN Finish(p, "verify", id, today, "Invalid verification code", 0)
               ELSE Goto(p, "verify_mark", [NoLoc EXCEPT !.telegram_id = id,
                                                         !.today = today,
                                                         !.code = code,
                                                         !.pid = pid,
                                                         !.points = PREDICTION_POINTS])

\* update predictions set is_verified = true where id = prediction["id"]
verify_mark(p) ==
    /\ At(p, "verify_mark")
    /\ db_predictions' = [db_predictions EXCEPT ![loc[p].pid].is_verified = TRUE]
    /\ UNCHANGED <<db_users, db_spins, db_user_tasks>>
    /\ Goto(p, "verify_get_user", loc[p])

\* user = select * from users ...; data[0]; the new points, xp and level.
GetUser(p, op, next) ==
    /\ UNCHANGED <<db_users, db_predictions, db_spins, db_user_tasks>>
    /\ LET id == loc[p].telegram_id IN
       IF id \notin DOMAIN db_users
       THEN Finish(p, op, id, loc[p].today, "IndexError", 0)
       ELSE LET user == db_users[id]
                lv == LevelUp(user.level, user.xp + loc[p].points)
            IN Goto(p, next, [loc[p] EXCEPT !.new_points = user.points + loc[p].points,
                                            !.new_xp = lv.xp,
                                            !.new_level = lv.level])

\* update users set points, xp, level where telegram_id = id
UpdateUser(p) ==
    LET id == loc[p].telegram_id IN
    IF id \in DOMAIN db_users
    THEN [db_users EXCEPT ![id].points = loc[p].new_points,
                          ![id].xp = loc[p].new_xp,
                          ![id].level = loc[p].new_level]
    ELSE db_users

verify_get_user(p) ==
    /\ At(p, "verify_get_user")
    /\ GetUser(p, "verify", "verify_update")

verify_update(p) ==
    /\ At(p, "verify_update")
    /\ db_users' = UpdateUser(p)
    /\ UNCHANGED <<db_predictions, db_spins, db_user_tasks>>
    /\ Finish(p, "verify", loc[p].telegram_id, loc[p].today, "ok", loc[p].points)

\* select * from spins where user_id = id and spun_at = d
SpinsOf(id, d) ==
    {i \in DOMAIN db_spins : db_spins[i].user_id = id /\ db_spins[i].spun_at = d}

spin_select(p, id) ==
    /\ Begin(p)
    /\ UNCHANGED <<db_users, db_predictions, db_spins, db_user_tasks>>
    /\ IF SpinsOf(id, today) # {}
       THEN Finish(p, "spin", id, today, "Already spun today", 0)
       ELSE \E points \in Prizes :
               Goto(p, "spin_insert", [NoLoc EXCEPT !.telegram_id = id,
                                                    !.today = today,
                                                    !.points = points])

\* insert into spins; spun_at takes the column default.
spin_insert(p) ==
    /\ At(p, "spin_insert")
    /\ db_spins' = Append(db_spins, [user_id |-> loc[p].telegram_id,
                                     spun_at |-> today,
                                     points_won |-> loc[p].points])
    /\ UNCHANGED <<db_users, db_predictions, db_user_tasks>>
    /\ Goto(p, "spin_get_user", loc[p])

spin_get_user(p) ==
    /\ At(p, "spin_get_user")
    /\ GetUser(p, "spin", "spin_update")

spin_update(p) ==
    /\ At(p, "spin_update")
    /\ db_users' = UpdateUser(p)
    /\ UNCHANGED <<db_predictions, db_spins, db_user_tasks>>
    /\ Finish(p, "spin", loc[p].telegram_id, loc[p].today, "ok", loc[p].points)

\* select * from user_tasks where user_id = id and task_id = task_id
TasksOf(id, task_id) ==
    {i \in DOMAIN db_user_tasks :
        db_user_tasks[i].user_id = id /\ db_user_tasks[i].task_id = task_id}

task_select(p, task_id, id) ==
    /\ Begin(p)
    /\ UNCHANGED <<db_users, db_predictions, db_spins, db_user_tasks>>
    /\ IF TasksOf(id, task_id) # {}
       THEN Finish(p, "task", id, today, "Task already completed", 0)
       ELSE Goto(p, "task_get", [NoLoc EXCEPT !.telegram_id = id,
                                              !.today = today,
                                              !.task_id = task_id])

\* task = select * from tasks where id = task_id
task_get(p) ==
    /\ At(p, "task_get")
    /\ UNCHANGED <<db_users, db_predictions, db_spins, db_user_tasks>>
    /\ IF loc[p].task_id \notin DOMAIN tasks
       THEN Finish(p, "task", loc[p].telegram_id, loc[p].today, "Task not found", 0)
       ELSE Goto(p, "task_insert", [loc[p] EXCEPT !.points = tasks[loc[p].task_id]])

task_insert(p) ==
    /\ At(p, "task_insert")
    /\ db_user_tasks' = Append(db_user_tasks, [user_id |-> loc[p].telegram_id,
                                               task_id |-> loc[p].task_id,
                                               points_earned |-> loc[p].points])
    /\ UNCHANGED <<db_users, db_predictions, db_spins>>
    /\ Goto(p, "task_get_user", loc[p])

\* user = select ...; new_points = user.data[0]["points"] + points
task_get_user(p) ==
    /\ At(p, "task_get_user")
    /\ UNCHANGED <<db_users, db_predictions, db_spins, db_user_tasks>>
    /\ LET id == loc[p].telegram_id IN
       IF id \notin DOMAIN db_users
       THEN Finish(p, "task", id, loc[p].today, "IndexError", 0)
       ELSE Goto(p, "task_update",
                 [loc[p] EXCEPT !.new_points = db_users[id].points + loc[p].points])

\* update users set points = new_points where telegram_id = id
task_update(p) ==
    /\ At(p, "task_update")
    /\ LET id == loc[p].telegram_id IN
       db_users' = IF id \in DOMAIN db_users
                   THEN [db_users EXCEPT ![id].points = loc[p].new_points]
                   ELSE db_users
    /\ UNCHANGED <<db_predictions, db_spins, db_user_tasks>>
    /\ Finish(p, "task", loc[p].telegram_id, loc[p].today, "ok", loc[p].points)

NextDb ==
    \E p \in Procs :
        \/ \E id \in Ids, referrer \in Referrers : onboard_select(p, id, referrer)
        \/ onboard_insert(p)
        \/ \E id \in Ids : prediction_select(p, id)
        \/ prediction_insert(p)
        \/ prediction_update(p)
        \/ \E id \in Ids, code \in Codes : verify_select(p, id, code)
        \/ verify_mark(p)
        \/ verify_get_user(p)
        \/ verify_update(p)
        \/ \E id \in Ids : spin_select(p, id)
        \/ spin_insert(p)
        \/ spin_get_user(p)
        \/ spin_update(p)
        \/ \E id \in Ids, task_id \in TaskIds : task_select(p, task_id, id)
        \/ task_get(p)
        \/ task_insert(p)
        \/ task_get_user(p)
        \/ task_update(p)

Next == NextDay \/ NextMem \/ NextDb

Spec == Init /\ [][Next]_vars

\* ------------------------------------------ what the properties are stated in
\* The accounts of the storage mode in use.
Users == IF USE_SUPABASE THEN db_users ELSE users_memory

Idle == \A p \in Procs : pc[p] = "idle"

\* A handler returned in this step.
Returned == resp'.n # resp.n

RECURSIVE SumOver(_, _)
SumOver(f, S) ==
    IF S = {} THEN 0
    ELSE LET x == CHOOSE y \in S : TRUE IN f[x] + SumOver(f, S \ {x})

\* Successful responses of one operation for one user, over all dates.
GrantedTo(op, id) == SumOver([d \in Dates |-> granted[<<op, id, d>>]], Dates)

\* ---------------------------------------------------------------- claims

\* C1: once a verify_prediction call with the correct code has succeeded for a
\* user on a date, no later verify_prediction call of that user on that date
\* succeeds: the prediction reward is granted at most once per user and date,
\* in both storage modes.
C1_VerifyOncePerDate ==
    \A id \in Ids, d \in Dates : granted[<<"verify", id, d>>] <= 1

\* C2: of two spin_fortune calls of one user on the same date the second fails
\* and awards nothing: at most one spin succeeds per user and date, in both
\* storage modes.
C2_SpinOncePerDate ==
    \A id \in Ids, d \in Dates : granted[<<"spin", id, d>>] <= 1

\* C3: of two concurrent spin_fortune calls, or two concurrent verify_prediction
\* calls with the correct code, of one user on one date, only one passes the
\* gate and awards points, under every interleaving of their store calls.
C3_OneConcurrentCallAwards ==
    USE_SUPABASE =>
        \A id \in Ids, d \in Dates :
            /\ granted[<<"spin", id, d>>] <= 1
            /\ granted[<<"verify", id, d>>] <= 1

\* C4: no update to an account is lost: when the point-awarding calls have
\* returned, the points of every account are the sum of the amounts the
\* successful calls awarded to it.
C4_NoLostUpdate ==
    (USE_SUPABASE /\ Idle) =>
        \A id \in DOMAIN db_users : db_users[id].points = awarded[id]

\* The referrer of an account, None when the account or the link is missing.
ReferrerOf(id) ==
    IF id \in DOMAIN Users /\ "referrer_id" \in DOMAIN Users[id]
    THEN Users[id].referrer_id ELSE None

HasAccount(id) == id \in DOMAIN Users /\ "points" \in DOMAIN Users[id]

\* C5: when verify_prediction or spin_fortune awards an amount a to a user whose
\* referrer R has an account, R's points grow by floor(a * 0.10) in that call,
\* R's referrer G by floor(a * 0.05) and G's referrer H by floor(a * 0.02), each
\* from the original amount, and the referrers' xp and level do not change.
C5_ReferralCascade ==
    [][\A id \in Ids :
        (/\ Returned
         /\ resp'.status = "ok"
         /\ resp'.op \in {"verify", "spin"}
         /\ resp'.telegram_id = id)
        => LET a == resp'.points
               R == ReferrerOf(id)
               G == ReferrerOf(R)
               H == ReferrerOf(G)
           IN /\ (HasAccount(R) /\ R # id)
                    => /\ Users'[R].points = Users[R].points + (a * 10) \div 100
                       /\ Users'[R].xp = Users[R].xp
                       /\ Users'[R].level = Users[R].level
              /\ (HasAccount(R) /\ HasAccount(G) /\ Cardinality({id, R, G}) = 3)
                    => Users'[G].points = Users[G].points + (a * 5) \div 100
              /\ (HasAccount(R) /\ HasAccount(G) /\ HasAccount(H)
                  /\ Cardinality({id, R, G, H}) = 4)
                    => Users'[H].points = Users[H].points + (a * 2) \div 100
      ]_vars

\* C6: every account has a level >= 1 and an xp >= 0 with
\* xp < 1000*level + 500*(level-1), in every reachable state.
C6_LevelInvariant ==
    \A id \in DOMAIN Users :
        LET u == Users[id] IN
        /\ "level" \in DOMAIN u
        /\ "xp" \in DOMAIN u
        /\ u.level >= 1
        /\ u.xp >= 0
        /\ u.xp < 1000 * u.level + 500 * (u.level - 1)

\* The rows a user's calls have left in the spins and predictions tables.
SpinRows(id) == {i \in DOMAIN db_spins : db_spins[i].user_id = id}
VerifiedRows(id) ==
    {i \in DOMAIN db_predictions :
        db_predictions[i].user_id = id /\ db_predictions[i].is_verified}

XpUnit == prizes[1]
Amounts == {k * XpUnit : k \in 0..MaxDelta}

RECURSIVE XpBelow(_, _)
\* the xp needed for the levels from..to-1
XpBelow(from, to) ==
    IF from >= to THEN 0 ELSE calculate_xp_for_level(from) + XpBelow(from + 1, to)

InitLevel ==
    /\ USE_SUPABASE = TRUE
    /\ today = 1
    /\ users_memory = <<>>
    /\ predictions_memory = <<>>
    /\ \E level \in 1..MaxLevel :
       \E xp \in {x \in Amounts : x < calculate_xp_for_level(level)} :
            db_users = (1 :> [NewRow(1, None) EXCEPT !.level = level, !.xp = xp,
                                                 !.points = xp + XpBelow(1, level)])
    /\ db_predictions = <<[user_id |-> 1, created_at |-> 1, verification_code |-> 1,
                           is_verified |-> TRUE]>>
    /\ db_spins = <<>>
    /\ db_user_tasks = <<>>
    /\ pc = [p \in Procs |-> IF p = 1 THEN "verify_get_user" ELSE "idle"]
    /\ \E delta \in Amounts :
            loc = [p \in Procs |->
                     IF p = 1 THEN [NoLoc EXCEPT !.telegram_id = 1, !.today = 1,
                                                 !.code = 1, !.pid = 1, !.points = delta]
                     ELSE NoLoc]
    /\ resp = Response(0, "none", 0, 0, "none", 0)
    /\ quota = 0
    /\ granted = [k \in {"verify", "spin"} \X Ids \X Dates |-> 0]
    /\ awarded = [id \in Ids |-> 0]

NextLevel == verify_get_user(1) \/ verify_update(1)

SpecLevel == InitLevel /\ [][NextLevel]_vars

\* req(k) of the claim
Req(k) == 1000 * k + 500 * (k - 1)

RECURSIVE ReqSum(_, _)
\* req(from) + ... + req(to)
ReqSum(from, to) == IF from > to THEN 0 ELSE Req(from) + ReqSum(from + 1, to)

\* C7: the level-up loop conserves XP: from (level L, xp x), x < req(L), an
\* award of delta >= 0 yields (L', x') with L' >= L, 0 <= x' < req(L') and
\* x + delta = x' + req(L) + ... + req(L'-1); every level below L' was passed
\* with at least its req of xp (L' is the smallest such level); 3600 awarded
\* at level 1 with 0 xp yields level 3 with 100 xp.
C7_LevelUpConservesXp ==
    pc[1] = "verify_update" =>
        LET L == db_users[1].level
            x == db_users[1].xp
            delta == loc[1].points
            L2 == loc[1].new_level
            x2 == loc[1].new_xp
        IN /\ L2 >= L
           /\ x2 >= 0
           /\ x2 < Req(L2)
           /\ x + delta = x2 + ReqSum(L, L2 - 1)
           /\ \A k \in L..(L2 - 1) : x + delta - ReqSum(L, k - 1) >= Req(k)
           /\ (L = 1 /\ x = 0 /\ delta = 3600) => (L2 = 3 /\ x2 = 100)

\* C7 witness: 3600 awarded at level 1 with 0 xp, two levels gained in one loop.
C7_Witness ==
    /\ pc[1] = "verify_update"
    /\ db_users[1].level = 1
    /\ db_users[1].xp = 0
    /\ loc[1].points = 3600
    /\ loc[1].new_level = 3
    /\ loc[1].new_xp = 100

\* ------------------------------------------------- the prediction flow alone
\* SpecPrediction: the requests of the prediction flow (get_daily_prediction,
\* verify_prediction), in both storage modes, started from the states in which
\* no user, or every user, has been onboarded and no prediction has been
\* requested.
InitPrediction ==
    /\ USE_SUPABASE \in BOOLEAN
    /\ today = 1
    /\ \E onboarded \in {{}, Ids} :
        /\ users_memory = IF USE_SUPABASE THEN <<>>
                          ELSE [id \in onboarded |-> NewUser(id, None)]
        /\ db_users = IF USE_SUPABASE THEN [id \in onboarded |-> NewRow(id, None)]
                      ELSE <<>>
    /\ predictions_memory = <<>>
    /\ db_predictions = <<>>
    /\ db_spins = <<>>
    /\ db_user_tasks = <<>>
    /\ pc = [p \in Procs |-> "idle"]
    /\ loc = [p \in Procs |-> NoLoc]
    /\ resp = Response(0, "none", 0, 0, "none", 0)
    /\ quota = MaxPredictionCalls
    /\ granted = [k \in {"verify", "spin"} \X Ids \X Dates |-> 0]
    /\ awarded = [id \in Ids |-> 0]

NextPrediction ==
    \/ NextDay
    \/ \E id \in Ids : get_daily_prediction_mem(id)
    \/ \E id \in Ids, code \in Codes : verify_prediction_mem(id, code)
    \/ \E p \in Procs :
        \/ \E id \in Ids : prediction_select(p, id)
        \/ prediction_insert(p)
        \/ prediction_update(p)
        \/ \E id \in Ids, code \in Codes : verify_select(p, id, code)
        \/ verify_mark(p)
        \/ verify_get_user(p)
        \/ verify_update(p)

SpecPrediction == InitPrediction /\ [][NextPrediction]_vars

\* The codes issued to a user for the current date, and whether one of the
\* user's predictions of the date is verified.
IssuedCodes(id) ==
    IF USE_SUPABASE
    THEN {db_predictions[i].verification_code : i \in PredictionsOf(id, today)}
    ELSE IF <<id, today>> \in DOMAIN predictions_memory
         THEN {predictions_memory[<<id, today>>].code}
         ELSE {}

VerifiedToday(id) ==
    USE_SUPABASE /\ \E i \in PredictionsOf(id, today) : db_predictions[i].is_verified

\* C10: a verify_prediction call fails with 'No prediction for today' when the
\* user has no prediction for the current date, and with 'Invalid verification
\* code' when the user has an unverified prediction and the submitted code is
\* not the issued one; a call with a code that was not issued to the user for
\* the date never succeeds; in each case the call changes nothing in the store
\* (points unchanged, prediction still unverified).
C10_VerifyRejects ==
    [][\A id \in Ids, code \in Codes :
        (verify_prediction_mem(id, code) \/ \E p \in Procs : verify_select(p, id, code))
        => /\ IssuedCodes(id) = {}
                => /\ Returned
                   /\ resp'.status = "No prediction for today"
                   /\ UNCHANGED store
           /\ (IssuedCodes(id) # {} /\ code \notin IssuedCodes(id) /\ ~VerifiedToday(id))
                => /\ Returned
                   /\ resp'.status = "Invalid verification code"
                   /\ UNCHANGED store
           /\ code \notin IssuedCodes(id)
                => /\ Returned
                   /\ resp'.status # "ok"
                   /\ UNCHANGED store
      ]_vars

\* C10 witness: a call was rejected for its code while a prediction was issued.
C10_Witness ==
    /\ resp.op = "verify"
    /\ resp.status = "Invalid verification code"
    /\ IssuedCodes(resp.telegram_id) # {}
    /\ resp.today = today

\* ------------------------------------------------------ claims C11 .. C20

\* C11: under any sequence or interleaving of get_daily_prediction calls the
\* store holds at most one prediction record for each user and date (so that
\* every call after the first returns the record of the first, and the stored
\* code never changes).
C11_OnePredictionPerDate ==
    \A id \in Ids, d \in Dates :
        /\ USE_SUPABASE => Cardinality(PredictionsOf(id, d)) <= 1
        /\ ~USE_SUPABASE =>
              Cardinality({k \in DOMAIN predictions_memory : k = <<id, d>>}) <= 1

\* ------------------------------------------------------- the leaderboard
MaxBoardUser == 3     \* SpecLeaderboard: accounts in the store
MaxBoardCalls == 1    \* SpecLeaderboard: requests served in one behaviour

\* The limit query parameter: any integer; here -2 .. MaxBoardUser + 1.
Limits == (0 - 2)..(MaxBoardUser + 1)
\* Balances of the accounts of SpecLeaderboard: none, two spins, one spin.
BoardPoints == {0, 2 * prizes[3], prizes[5]}

\* dict.values(): the values in insertion order.  Keys are listed in
\* ascending order: in the states of SpecLeaderboard the accounts were
\* inserted in the order of their ids.
RECURSIVE Values(_)
Values(d) ==
    IF DOMAIN d = {} THEN <<>>
    ELSE LET k == CHOOSE x \in DOMAIN d : \A y \in DOMAIN d : x <= y
         IN <<d[k]>> \o Values([x \in DOMAIN d \ {k} |-> d[x]])

\* sorted(..., key=lambda u: u.get("points", 0), reverse=True): a stable sort,
\* elements with equal keys keep their order (also under reverse=True).
RECURSIVE SortedByPoints(_)
SortedByPoints(s) ==
    IF s = <<>> THEN <<>>
    ELSE LET rest == SortedByPoints(Tail(s))
             key == Get(Head(s), "points", 0)
             before == SelectSeq(rest, LAMBDA u : Get(u, "points", 0) > key)
             after == SelectSeq(rest, LAMBDA u : Get(u, "points", 0) <= key)
         IN before \o <<Head(s)>> \o after

\* s[:limit]: a negative limit counts from the end of the list.
Slice(s, limit) ==
    LET stop == IF limit >= 0 THEN limit ELSE Len(s) + limit
    IN IF stop <= 0 THEN <<>>
       ELSE IF stop >= Len(s) THEN s
       ELSE SubSeq(s, 1, stop)

\* The response of get_leaderboard: the list returned, or the exception raised.
ReturnBoard(limit, status, leaderboard) ==
    /\ resp' = [n |-> resp.n + 1, op |-> "leaderboard", telegram_id |-> None,
                today |-> today, status |-> status, points |-> 0,
                limit |-> limit, leaderboard |-> leaderboard]
    /\ UNCHANGED <<granted, awarded>>

\* for i, u in enumerate(...): the entry at index i carries rank i + 1; the
\* sequence position of index i is i + 1.
Ranked(s) == [j \in 1..Len(s) |-> s[j] @@ [rank |-> (j - 1) + 1]]

get_leaderboard_mem(limit) ==
    /\ MemCall
    /\ UNCHANGED <<users_memory, predictions_memory>>
    /\ LET sorted_users == Slice(SortedByPoints(Values(users_memory)), limit) IN
       IF \E j \in 1..Len(sorted_users) :
             {"telegram_id", "username"} \ DOMAIN sorted_users[j] # {}
       THEN ReturnBoard(limit, "KeyError", <<>>)
       ELSE ReturnBoard(limit, "ok",
               Ranked([j \in 1..Len(sorted_users) |->
                         [telegram_id |-> sorted_users[j].telegram_id,
                          username |-> sorted_users[j].username,
                          level |-> Get(sorted_users[j], "level", 1),
                          points |-> Get(sorted_users[j], "points", 0)]]))

\* The orders in which ORDER BY points DESC may return the rows: the database
\* leaves the order of rows with equal points open.
Orderings ==
    {s \in [1..Cardinality(DOMAIN db_users) -> DOMAIN db_users] :
        /\ \A i, j \in DOMAIN s : i # j => s[i] # s[j]
        /\ \A i, j \in DOMAIN s : i < j => db_users[s[i]].points >= db_users[s[j]].points}

\* One store call.  Only limit >= 0 is modelled: what the database answers to
\* a negative limit is not decided by this repository.
get_leaderboard_db(p, limit) ==
    /\ Begin(p)
    /\ limit >= 0
    /\ UNCHANGED <<db_users, db_predictions, db_spins, db_user_tasks, pc, loc>>
    /\ \E order \in Orderings :
          ReturnBoard(limit, "ok",
              Ranked(Slice([j \in DOMAIN order |->
                              [telegram_id |-> db_users[order[j]].telegram_id,
                               username |-> db_users[order[j]].username,
                               level |-> db_users[order[j]].level,
                               points |-> db_users[order[j]].points]], limit)))

\* The spins behind a balance of BoardPoints in Supabase mode.
SpinHistory(id, points) ==
    IF points = prizes[5]
    THEN <<[user_id |-> id, spun_at |-> MaxDate, points_won |-> prizes[5]]>>
    ELSE IF points = 2 * prizes[3]
    THEN <<[user_id |-> id, spun_at |-> MaxDate - 1, points_won |-> prizes[3]],
           [user_id |-> id, spun_at |-> MaxDate, points_won |-> prizes[3]]>>
    ELSE <<>>

RECURSIVE BoardSpins(_, _)
BoardSpins(pts, n) ==
    IF n = 0 THEN <<>> ELSE BoardSpins(pts, n - 1) \o SpinHistory(n, pts[n])

\* SpecLeaderboard: get_leaderboard over the stores the program can hold after
\* users 1..n were onboarded in this order and earned points by spins; in
\* in-memory mode some accounts were created by an award instead (an account
\* {"points": p}, src/main.py:368-370).
InitLeaderboard ==
    /\ USE_SUPABASE \in BOOLEAN
    /\ today = MaxDate
    /\ \E n \in 0..MaxBoardUser :
       \E pts \in [1..n -> BoardPoints] :
       \E created \in SUBSET {id \in 1..n : pts[id] > 0} :
        /\ USE_SUPABASE => created = {}
        /\ users_memory =
             IF USE_SUPABASE THEN <<>>
             ELSE [id \in 1..n |-> IF id \in created THEN [points |-> pts[id]]
                                   ELSE [NewUser(id, None) EXCEPT !.points = pts[id]]]
        /\ db_users =
             IF USE_SUPABASE
             THEN [id \in 1..n |-> [NewRow(id, None) EXCEPT !.points = pts[id],
                                                            !.xp = pts[id]]]
             ELSE <<>>
        /\ db_spins = IF USE_SUPABASE THEN BoardSpins(pts, n) ELSE <<>>
    /\ predictions_memory = <<>>
    /\ db_predictions = <<>>
    /\ db_user_tasks = <<>>
    /\ pc = [p \in Procs |-> "idle"]
    /\ loc = [p \in Procs |-> NoLoc]
    /\ resp = Response(0, "none", 0, 0, "none", 0)
    /\ quota = MaxBoardCalls
    /\ granted = [k \in {"verify", "spin"} \X Ids \X Dates |-> 0]
    /\ awarded = [id \in Ids |-> 0]

NextLeaderboard ==
    \/ \E limit \in Limits : get_leaderboard_mem(limit)
    \/ \E p \in Procs, limit \in Limits : get_leaderboard_db(p, limit)

SpecLeaderboard == InitLeaderboard /\ [][NextLeaderboard]_vars

\* The accounts of the store in enumeration order.
Snapshot == Values(Users)

\* The position of an account in the snapshot.
PositionOf(id) ==
    CHOOSE j \in 1..Len(Snapshot) : Get(Snapshot[j], "telegram_id", None) = id

\* C12: get_leaderboard returns the accounts sorted by points, highest first;
\* accounts with equal points keep the relative order they have in the store
\* snapshot; the entry at zero-based index i carries rank i + 1.  (For the
\* balances 300, 300, 500 the account with 500 comes first and the two accounts
\* with 300 follow in snapshot order.)
C12_LeaderboardOrder ==
    (resp.op = "leaderboard" /\ resp.status = "ok") =>
        LET board == resp.leaderboard IN
        /\ \A i, j \in DOMAIN board :
              i < j => /\ board[i].points >= board[j].points
                       /\ board[i].points = board[j].points
                             => PositionOf(board[i].telegram_id)
                                  < PositionOf(board[j].telegram_id)
        /\ \A j \in DOMAIN board : board[j].rank = (j - 1) + 1

\* C13: get_leaderboard(limit) returns at most limit entries for every integer
\* limit, and the empty list whenever limit <= 0 (zero and every negative
\* value).
C13_LeaderboardLimit ==
    (resp.op = "leaderboard" /\ resp.status = "ok") =>
        /\ resp.limit > 0 => Len(resp.leaderboard) <= resp.limit
        /\ resp.limit <= 0 => resp.leaderboard = <<>>

\* The experience an account has gathered: the XP consumed by the levels it
\* has passed plus the XP it holds.
TotalXp(u) == XpBelow(1, u.level) + u.xp

\* C14: every award made by verify_prediction or spin_fortune, in both storage
\* modes, adds the same amount to the recipient's XP as to the recipient's
\* points (leveling applied to the increased XP).
C14_AwardAddsXp ==
    [][(/\ Returned
        /\ resp'.op \in {"verify", "spin"}
        /\ resp'.status = "ok"
        /\ resp'.telegram_id \in DOMAIN Users
        /\ {"xp", "level", "points"} \subseteq DOMAIN Users[resp'.telegram_id])
       => LET before == Users[resp'.telegram_id]
              after == Users'[resp'.telegram_id]
          IN /\ {"xp", "level", "points"} \subseteq DOMAIN after
             /\ TotalXp(after) = TotalXp(before) + resp'.points
      ]_vars

\* The accounts reached from an account by following referrer_id one to n
\* times.
RECURSIVE Ancestors(_, _)
Ancestors(id, n) ==
    IF n = 0 \/ ReferrerOf(id) = None THEN {}
    ELSE {ReferrerOf(id)} \cup Ancestors(ReferrerOf(id), n - 1)

\* C15: in every state reachable by onboard_user calls, whatever referrer
\* they pass, the referrer relation of the stored accounts has no cycle; in
\* particular no account is its own referrer.
C15_ReferrersAcyclic ==
    \A id \in DOMAIN Users : id \notin Ancestors(id, MaxUser)

\* C16: every account's points are non-negative, and no step of onboard_user,
\* verify_prediction, spin_fortune or complete_task decreases them.
C16_PointsMonotone ==
    [][\A id \in Ids :
          (HasAccount(id)' => Users'[id].points >= 0)
          /\ (HasAccount(id) => /\ HasAccount(id)'
                                /\ Users'[id].points >= Users[id].points)
      ]_vars

\* ------------------------------------------- onboarding and awards alone
MaxAwardCalls == 1    \* SpecAward: requests served in one behaviour

\* SpecAward: onboard_user, verify_prediction and spin_fortune on one day, in
\* both storage modes, started from the stores the program holds after the
\* users 1..k were onboarded with one referrer r (an account, possibly their
\* own, an identity without an account, or none), every identity requested
\* its prediction of the day, and either none or each of the onboarded users
\* verified it.
InitAward ==
    /\ USE_SUPABASE \in BOOLEAN
    /\ today = 1
    /\ \E k \in 0..MaxUser, r \in Referrers, verified \in BOOLEAN :
       LET earned == IF verified THEN PREDICTION_POINTS ELSE 0 IN
        /\ (k = 0) => (r = None /\ ~verified)
        /\ users_memory =
             IF USE_SUPABASE THEN <<>>
             ELSE [id \in 1..k |-> [NewUser(id, r) EXCEPT !.points = earned]]
        /\ db_users =
             IF USE_SUPABASE
             THEN [id \in 1..k |-> [NewRow(id, r) EXCEPT !.points = earned,
                                                         !.xp = earned]]
             ELSE <<>>
        /\ predictions_memory =
             IF USE_SUPABASE THEN <<>>
             ELSE [key \in Ids \X {1} |-> [code |-> 1]]
        /\ db_predictions =
             IF USE_SUPABASE
             THEN [id \in Ids |-> [user_id |-> id, created_at |-> 1,
                                   verification_code |-> 1,
                                   is_verified |-> verified /\ id <= k]]
             ELSE <<>>
        /\ granted = [key \in {"verify", "spin"} \X Ids \X Dates |->
                        IF verified /\ key[1] = "verify" /\ key[2] <= k /\ key[3] = 1
                        THEN 1 ELSE 0]
        /\ awarded = [id \in Ids |-> IF id <= k THEN earned ELSE 0]
    /\ db_spins = <<>>
    /\ db_user_tasks = <<>>
    /\ pc = [p \in Procs |-> "idle"]
    /\ loc = [p \in Procs |-> NoLoc]
    /\ resp = Response(0, "none", 0, 0, "none", 0)
    /\ quota = MaxAwardCalls

NextAward ==
    \/ \E id \in Ids, referrer \in Referrers : onboard_user_mem(id, referrer)
    \/ \E id \in Ids, code \in Codes : verify_prediction_mem(id, code)
    \/ \E id \in Ids : spin_fortune_mem(id)
    \/ \E p \in Procs :
        \/ \E id \in Ids, referrer \in Referrers : onboard_select(p, id, referrer)
        \/ onboard_insert(p)
        \/ \E id \in Ids, code \in Codes : verify_select(p, id, code)
        \/ verify_mark(p)
        \/ verify_get_user(p)
        \/ verify_update(p)
        \/ \E id \in Ids : spin_select(p, id)
        \/ spin_insert(p)
        \/ spin_get_user(p)
        \/ spin_update(p)

SpecAward == InitAward /\ [][NextAward]_vars

\* The store calls of verify_prediction and spin_fortune after the first.
AwardLabels == {"verify_mark", "verify_get_user", "verify_update",
                "spin_insert", "spin_get_user", "spin_update"}

\* This step is a step of a verify_prediction or spin_fortune call for id: the
\* call returns, or its worker goes on to the next store call.
AwardStep(id) ==
    \/ /\ Returned
       /\ resp'.op \in {"verify", "spin"}
       /\ resp'.telegram_id = id
    \/ \E p \in Procs : /\ pc'[p] \in AwardLabels
                        /\ pc'[p] # pc[p]
                        /\ loc'[p].telegram_id = id

\* The account has a referrer_id that names no account.
Dangling(id) ==
    /\ HasAccount(id)
    /\ ReferrerOf(id) # None
    /\ ReferrerOf(id) \notin DOMAIN Users

\* What a verify_prediction or spin_fortune call answers when the daily gate
\* or the verification step turns it down.
Refusals == {"No prediction for today", "Already verified today",
             "Invalid verification code", "Already spun today"}

\* C17: when the recipient's referrer_id names an account that does not exist,
\* an award by verify_prediction or spin_fortune still succeeds for the
\* recipient, raises no error, and changes no account other than the
\* recipient's.
C17_DanglingReferrer ==
    [][\A id \in Ids :
        (Dangling(id) /\ AwardStep(id))
        => /\ \A other \in Ids \ {id} :
                /\ other \in DOMAIN Users' <=> other \in DOMAIN Users
                /\ other \in DOMAIN Users => Users'[other] = Users[other]
           /\ Returned => resp'.status \in {"ok"} \cup Refusals
           /\ (Returned /\ resp'.status = "ok")
                => /\ HasAccount(id)'
                   /\ Users'[id].points >= resp'.points
                   /\ ~USE_SUPABASE
                        => Users'[id].points = Users[id].points + resp'.points
      ]_vars

\* C17 witness: an award was granted to an account whose referrer has no
\* account.
C17_Witness ==
    /\ resp.op \in {"verify", "spin"}
    /\ resp.status = "ok"
    /\ resp.points > 0
    /\ Dangling(resp.telegram_id)

\* C18: onboard_user is idempotent per telegram_id: a call for an identity that
\* already has an account returns successfully and leaves that account's
\* points, xp, level and referrer_id (and the rest of the store) as they were,
\* whatever referrer the call passes; no step of an onboard_user call changes
\* an existing account.
C18_OnboardIdempotent ==
    [][\A id \in Ids, referrer \in Referrers :
        /\ ((onboard_user_mem(id, referrer)
               \/ \E p \in Procs : onboard_select(p, id, referrer))
            /\ id \in DOMAIN Users)
           => /\ Returned
              /\ resp'.op = "onboard"
              /\ resp'.telegram_id = id
              /\ resp'.status = "ok"
              /\ UNCHANGED store
        /\ (onboard_user_mem(id, referrer)
              \/ \E p \in Procs : onboard_select(p, id, referrer) \/ onboard_insert(p))
           => \A other \in DOMAIN Users :
                 other \in DOMAIN Users' /\ Users'[other] = Users[other]
      ]_vars

\* C18 witness: onboard_user returned for an account that had already earned
\* points.
C18_Witness ==
    /\ resp.op = "onboard"
    /\ resp.status = "ok"
    /\ HasAccount(resp.telegram_id)
    /\ Users[resp.telegram_id].points > 0
    /\ quota < MaxAwardCalls

\* C19: in in-memory mode every stored account carries a telegram_id and a
\* username in every state reachable by onboard_user, verify_prediction and
\* spin_fortune calls, so that get_leaderboard, which reads both fields of every
\* listed account, never fails.
C19_AccountsHaveIdentity ==
    ~USE_SUPABASE =>
        \A id \in DOMAIN users_memory :
            {"telegram_id", "username"} \subseteq DOMAIN users_memory[id]

\* ------------------------------------------------------ referral statistics
MaxStatUser == 3      \* SpecStats: accounts in the store
MaxStatCalls == 1     \* SpecStats: requests served in one behaviour

StatIds == 1..MaxStatUser

\* select telegram_id, points from users where referrer_id = ref_id
ReferredBy(ref_id) == {id \in DOMAIN db_users : db_users[id].referrer_id = ref_id}

PointsOf(S) == SumOver([id \in S |-> db_users[id].points], S)

\* level2.extend(refs.data) for every ref_id of level1_ids
RECURSIVE Extend(_)
Extend(ref_ids) ==
    IF ref_ids = <<>> THEN <<>>
    ELSE Values([id \in ReferredBy(Head(ref_ids)) |-> id]) \o Extend(Tail(ref_ids))

\* sum of the points of the rows selected for every ref_id
RECURSIVE PointsUnder(_)
PointsUnder(ref_ids) ==
    IF ref_ids = <<>> THEN 0
    ELSE PointsOf(ReferredBy(Head(ref_ids))) + PointsUnder(Tail(ref_ids))

ReturnStats(id, l1, l2, l3, earned) ==
    /\ resp' = [n |-> resp.n + 1, op |-> "referral_stats", telegram_id |-> id,
                today |-> today, status |-> "ok", points |-> 0,
                level1_count |-> l1, level2_count |-> l2, level3_count |-> l3,
                total_earned |-> earned]
    /\ UNCHANGED <<granted, awarded>>

\* The selects of one call are taken together: no request of SpecStats writes
\* the store.
get_referral_stats_db(p, telegram_id) ==
    /\ Begin(p)
    /\ UNCHANGED <<db_users, db_predictions, db_spins, db_user_tasks, pc, loc>>
    /\ LET level1_ids == Values([id \in ReferredBy(telegram_id) |-> id])
           level1_points == PointsOf(ReferredBy(telegram_id))
           level2_ids == Extend(level1_ids)
           level2_points == PointsUnder(level1_ids)
           level3_points == PointsUnder(level2_ids)
       IN ReturnStats(telegram_id, Len(level1_ids), Len(level2_ids), Len(level2_ids),
              (10 * level1_points + 5 * level2_points + 2 * level3_points) \div 100)

get_referral_stats_mem(telegram_id) ==
    /\ MemCall
    /\ UNCHANGED <<users_memory, predictions_memory>>
    /\ ReturnStats(telegram_id, 0, 0, 0, 0)

\* SpecStats: get_referral_stats over the stores the program holds after the
\* users 1..n were onboarded, each with any referrer (onboard_user stores the
\* referrer it is given).
InitStats ==
    /\ USE_SUPABASE \in BOOLEAN
    /\ today = 1
    /\ \E n \in 0..MaxStatUser :
       \E referrers \in [1..n -> StatIds \cup {None}] :
        /\ users_memory = IF USE_SUPABASE THEN <<>>
                          ELSE [id \in 1..n |-> NewUser(id, referrers[id])]
        /\ db_users = IF USE_SUPABASE
                      THEN [id \in 1..n |-> NewRow(id, referrers[id])]
                      ELSE <<>>
    /\ predictions_memory = <<>>
    /\ db_predictions = <<>>
    /\ db_spins = <<>>
    /\ db_user_tasks = <<>>
    /\ pc = [p \in Procs |-> "idle"]
    /\ loc = [p \in Procs |-> NoLoc]
    /\ resp = Response(0, "none", 0, 0, "none", 0)
    /\ quota = MaxStatCalls
    /\ granted = [k \in {"verify", "spin"} \X Ids \X Dates |-> 0]
    /\ awarded = [id \in Ids |-> 0]

NextStats ==
    \/ \E id \in StatIds : get_referral_stats_mem(id)
    \/ \E p \in Procs, id \in StatIds : get_referral_stats_db(p, id)

SpecStats == InitStats /\ [][NextStats]_vars

\* The accounts at depth exactly k under u: those whose referrer is u, whose
\* referrer is at depth 1, whose referrer is at depth 2.
RECURSIVE Tier(_, _)
Tier(u, k) ==
    IF k = 1 THEN {id \in DOMAIN Users : ReferrerOf(id) = u}
    ELSE {id \in DOMAIN Users : ReferrerOf(id) \in Tier(u, k - 1)}

\* C20: in Supabase mode get_referral_stats(u) reports for each tier k the
\* number of accounts at depth exactly k under u: level1_count the accounts
\* whose referrer is u, level2_count the accounts whose referrer is a tier-1
\* account, level3_count the accounts whose referrer is a tier-2 account.
C20_TierCounts ==
    (USE_SUPABASE /\ resp.op = "referral_stats") =>
        /\ resp.level1_count = Cardinality(Tier(resp.telegram_id, 1))
        /\ resp.level2_count = Cardinality(Tier(resp.telegram_id, 2))
        /\ resp.level3_count = Cardinality(Tier(resp.telegram_id, 3))
====
